---- MODULE Spec2Model ----
(***************************************************************************)
(* Row generation (src/generator.py): a field boundary polygon and an AB   *)
(* reference line are projected to a planar frame, rotated so that AB is   *)
(* horizontal, a family of parallel candidate rows is clipped to the       *)
(* polygon, every surviving row is oriented, labelled, transformed back    *)
(* and emitted as a NetworkPath feature and a NetworkDestination feature.  *)
(*                                                                         *)
(* Geometry is exact integer geometry.  A point is <<x, y>>, a line is a   *)
(* sequence of points.  The boundary polygon is a union of closed square   *)
(* cells of side 2, given by the set of the cells' centres, so polygon     *)
(* vertices, AB endpoints and rows all live on the integer lattice.  AB    *)
(* lines are axis-parallel, which makes atan2 and the rotation exact.      *)
(* A text (a label) is the sequence of its character codes.                *)
(***************************************************************************)
EXTENDS Integers, Sequences, FiniteSets, TLC

VARIABLES
    pc,
    area_feature, ab_feature, spacing_m, dest_side,
    start_letter, start_num, zero_pad, dual_zone, keep_start_letter,
    area_m, ab_m, angle_deg, area_rot, ab_rot,
    row_lines_with_index, clipped_rows,
    features, dest_features, out_fc,
    label_index, label_names,
    custom_turn_geojson, secondary_turn_geojson, turn_side_a, turn_side_b,
    rotation_offset_a, rotation_offset_b,
    flip_start_horizontal, flip_start_vertical,
    flip_end_horizontal, flip_end_vertical,
    clock, entropy,
    custom_m_template, custom_anchor_m, secondary_m_template, secondary_anchor_m,
    current_time,
    attach_point, attached

vars == <<pc, area_feature, ab_feature, spacing_m, dest_side,
          start_letter, start_num, zero_pad, dual_zone, keep_start_letter,
          area_m, ab_m, angle_deg, area_rot, ab_rot,
          row_lines_with_index, clipped_rows,
          features, dest_features, out_fc,
          label_index, label_names,
          custom_turn_geojson, secondary_turn_geojson, turn_side_a, turn_side_b,
          rotation_offset_a, rotation_offset_b,
          flip_start_horizontal, flip_start_vertical,
          flip_end_horizontal, flip_end_vertical,
          clock, entropy,
          custom_m_template, custom_anchor_m, secondary_m_template, secondary_anchor_m,
          current_time,
          attach_point, attached>>

\* the parameters of generate_rows_geojson, and what the run reads from its
\* environment: the wall clock and the random source of uuid4
inputs == <<area_feature, ab_feature, spacing_m, dest_side,
            start_letter, start_num, zero_pad, dual_zone, keep_start_letter,
            custom_turn_geojson, secondary_turn_geojson, turn_side_a, turn_side_b,
            rotation_offset_a, rotation_offset_b,
            flip_start_horizontal, flip_start_vertical,
            flip_end_horizontal, flip_end_vertical,
            clock, entropy>>

\* the prepared turn templates and the batch timestamp
turn_state == <<custom_m_template, custom_anchor_m, secondary_m_template,
                secondary_anchor_m, current_time>>

\* the argument and the result of _attach_custom_turn applied on its own
attach_state == <<attach_point, attached>>

(***************************************************************************)
(* Bounds of the checked inputs.                                           *)
(***************************************************************************)
\* cells of the boundary grid, west-east and south-north
GridW == 3
GridH == 2
\* AB endpoints A range over 0..MaxCoord in both axes
MaxCoord == 6
\* length of the AB line
ABLen == 2
\* spacing_m ranges over 1..MaxSpacing
MaxSpacing == 3
\* the label sequencer is applied to the indices -MaxIndex..MaxIndex
MaxIndex == 3

\* SNAP_TOLERANCE = 0.01 m, in hundredths of a unit of length
SNAP_TOLERANCE == 1

(***************************************************************************)
(* Arithmetic helpers.                                                     *)
(***************************************************************************)
Abs(n) == IF n < 0 THEN -n ELSE n

SetMin(S) == CHOOSE m \in S : \A n \in S : m <= n

SetMax(S) == CHOOSE m \in S : \A n \in S : m >= n

\* math.ceil(a / b) for b > 0
Ceil(a, b) == -((-a) \div b)

First(s) == s[1]

Last(s) == s[Len(s)]

\* seg_coords[::-1]
Reversed(s) == [k \in 1..Len(s) |-> s[Len(s) + 1 - k]]

(***************************************************************************)
(* CRS projector.  The UTM zone comes from the longitude of the AB         *)
(* centroid, the hemisphere from its latitude.  The projection itself is   *)
(* pyproj's; it is modelled as the shift to the zone's central meridian    *)
(* and false northing, and the inverse projection as the opposite shift.   *)
(***************************************************************************)
\* ab_geom.centroid of a two-point line, both coordinates doubled
Centroid2(line) == <<First(line)[1] + Last(line)[1], First(line)[2] + Last(line)[2]>>

\* _get_utm_crs, on the doubled centroid: the EPSG code
_get_utm_crs(lon2, lat2) ==
    LET utm_zone == ((lon2 + 360) \div 12) + 1
    IN  IF lat2 >= 0 THEN 32600 + utm_zone ELSE 32700 + utm_zone

UtmShift(crs) ==
    IF crs >= 32700 THEN <<6 * (crs - 32700) - 183, 10000>>
                    ELSE <<6 * (crs - 32600) - 183, 0>>

ProjectPoint(p, crs) == <<p[1] - UtmShift(crs)[1], p[2] + UtmShift(crs)[2]>>

UnprojectPoint(p, crs) == <<p[1] + UtmShift(crs)[1], p[2] - UtmShift(crs)[2]>>

\* _to_utm of a line (a sequence of points)
_to_utm(line, lon2, lat2) ==
    [k \in 1..Len(line) |-> ProjectPoint(line[k], _get_utm_crs(lon2, lat2))]

\* _to_utm of a polygon (a set of cell centres)
_to_utm_area(cells, lon2, lat2) ==
    {ProjectPoint(c, _get_utm_crs(lon2, lat2)) : c \in cells}

\* _from_utm of a line
_from_utm(line, lon2, lat2) ==
    [k \in 1..Len(line) |-> UnprojectPoint(line[k], _get_utm_crs(lon2, lat2))]

(***************************************************************************)
(* Frame aligner.                                                          *)
(***************************************************************************)
\* math.degrees(math.atan2(dy, dx)) for axis-parallel (dx, dy); atan2(0, 0) = 0
Atan2Deg(dy, dx) ==
    CASE dy = 0 /\ dx >= 0 -> 0
      [] dy = 0 /\ dx < 0  -> 180
      [] dx = 0 /\ dy > 0  -> 90
      [] dx = 0 /\ dy < 0  -> -90

CosDeg(d) == CASE d % 360 = 0 -> 1 [] d % 360 = 90 -> 0 [] d % 360 = 180 -> -1 [] d % 360 = 270 -> 0

SinDeg(d) == CASE d % 360 = 0 -> 0 [] d % 360 = 90 -> 1 [] d % 360 = 180 -> 0 [] d % 360 = 270 -> -1

\* shapely.affinity.rotate of one point, counter-clockwise about origin
RotatePoint(p, deg, origin) ==
    LET dx == p[1] - origin[1]
        dy == p[2] - origin[2]
    IN  <<origin[1] + dx * CosDeg(deg) - dy * SinDeg(deg),
          origin[2] + dx * SinDeg(deg) + dy * CosDeg(deg)>>

\* _rotate of a line
_rotate(line, deg, origin) == [k \in 1..Len(line) |-> RotatePoint(line[k], deg, origin)]

\* _rotate of a polygon
_rotate_area(cells, deg, origin) == {RotatePoint(c, deg, origin) : c \in cells}

\* area_rot.bounds: <<minx, miny, maxx, maxy>>
Bounds(cells) ==
    <<SetMin({c[1] : c \in cells}) - 1, SetMin({c[2] : c \in cells}) - 1,
      SetMax({c[1] : c \in cells}) + 1, SetMax({c[2] : c \in cells}) + 1>>

(***************************************************************************)
(* Row family generator.                                                   *)
(***************************************************************************)
\* reference_y = (ab_rot_coords[0][1] + ab_rot_coords[-1][1]) / 2.0
ReferenceY(abrot) == (First(abrot)[2] + Last(abrot)[2]) \div 2

\* RowsBelow with the operands of the difference swapped
RowsBelow_Swapped(reference_y, miny, s) == Ceil(miny - reference_y, s) + 2

\* rows_below = int(math.ceil((reference_y - miny) / spacing_m)) + 2
RowsBelow(reference_y, miny, s) == Ceil(reference_y - miny, s) + 2

\* RowsAbove with the margin subtracted instead of added
RowsAbove_MarginSubtracted(reference_y, maxy, s) == Ceil(maxy - reference_y, s) - 2

\* rows_above = int(math.ceil((maxy - reference_y) / spacing_m)) + 2
RowsAbove(reference_y, maxy, s) == Ceil(maxy - reference_y, s) + 2

\* RowLine with the spacing left out of y_pos
RowLine_UnitSpacing(i, reference_y, bounds, s) ==
    LET minx == bounds[1]
        maxx == bounds[3]
        pad == (maxx - minx) * 2
        y_pos == reference_y + i
    IN  <<<<minx - pad, y_pos>>, <<maxx + pad, y_pos>>>>

\* the candidate line of index i
RowLine(i, reference_y, bounds, s) ==
    LET minx == bounds[1]
        maxx == bounds[3]
        pad == (maxx - minx) * 2
        y_pos == reference_y + (i * s)
    IN  <<<<minx - pad, y_pos>>, <<maxx + pad, y_pos>>>>

\* for i in range(lo, hi + 1): the list of (i, line)
RECURSIVE RowRange(_, _, _, _, _)
RowRange(lo, hi, reference_y, bounds, s) ==
    IF lo > hi THEN <<>>
    ELSE <<[row_index |-> lo, line |-> RowLine(lo, reference_y, bounds, s)]>>
         \o RowRange(lo + 1, hi, reference_y, bounds, s)

RowLinesWithIndex(abrot, cells, s) ==
    LET reference_y == ReferenceY(abrot)
        bounds == Bounds(cells)
    IN  RowRange(-RowsBelow(reference_y, bounds[2], s),
                 RowsAbove(reference_y, bounds[4], s),
                 reference_y, bounds, s)

(***************************************************************************)
(* Polygon clipper.  A horizontal line meets a closed cell whose centre is *)
(* at most 1 away in y, in the cell's whole width; touching and            *)
(* overlapping pieces merge, pieces separated by a gap stay apart.  The    *)
(* pieces come in the direction of the candidate line, west to east.       *)
(***************************************************************************)
\* length of an axis-parallel line, in hundredths
Length(line) ==
    100 * (Abs(Last(line)[1] - First(line)[1]) + Abs(Last(line)[2] - First(line)[2]))

RECURSIVE Ascending(_)
Ascending(S) ==
    IF S = {} THEN <<>> ELSE <<SetMin(S)>> \o Ascending(S \ {SetMin(S)})

\* line.intersection(area_rot): the list of the pieces
Intersection(line, cells) ==
    LET y == First(line)[2]
        x0 == First(line)[1]
        x1 == Last(line)[1]
        hit == {c \in cells : Abs(c[2] - y) <= 1}
        L == {c[1] - 1 : c \in hit}
        starts == {l \in L : (l - 2) \notin L}
        EndOf(st) == SetMin({l + 2 : l \in {m \in L : m >= st /\ (m + 2) \notin L}})
        Piece(st) == <<<<IF st < x0 THEN x0 ELSE st, y>>,
                       <<IF EndOf(st) > x1 THEN x1 ELSE EndOf(st), y>>>>
        inside == {st \in starts : st <= x1 /\ EndOf(st) >= x0}
        order == Ascending(inside)
    IN  [k \in 1..Len(order) |-> Piece(order[k])]

GeomType(pieces) ==
    CASE Len(pieces) = 0 -> "Empty"
      [] Len(pieces) = 1 /\ Length(pieces[1]) = 0 -> "Point"
      [] Len(pieces) = 1 /\ Length(pieces[1]) > 0 -> "LineString"
      [] Len(pieces) > 1 -> "MultiLineString"

\* the pieces longer than the tolerance, each with the row's index
RECURSIVE KeptPieces(_, _)
KeptPieces(row_index, pieces) ==
    IF pieces = <<>> THEN <<>>
    ELSE (IF Length(Head(pieces)) > SNAP_TOLERANCE
          THEN <<[row_index |-> row_index, seg |-> Head(pieces)]>> ELSE <<>>)
         \o KeptPieces(row_index, Tail(pieces))

\* the body of the clipping loop for one candidate
ClipOne(row, abrot, cells) ==
    IF row.row_index = 0
    THEN <<[row_index |-> 0, seg |-> abrot]>>
    ELSE LET intersection == Intersection(row.line, cells)
         IN  IF GeomType(intersection) \in {"LineString", "MultiLineString"}
             THEN KeptPieces(row.row_index, intersection)
             ELSE <<>>

RECURSIVE ClipLoop(_, _, _)
ClipLoop(rows, abrot, cells) ==
    IF rows = <<>> THEN <<>>
    ELSE ClipOne(Head(rows), abrot, cells) \o ClipLoop(Tail(rows), abrot, cells)

\* list.sort(key=lambda x: x[0]): a stable sort by row index
\* InsertByIndex that places a row before the rows of its own index
RECURSIVE InsertByIndex_Unstable(_, _)
InsertByIndex_Unstable(sorted, r) ==
    IF sorted = <<>> THEN <<r>>
    ELSE IF Last(sorted).row_index < r.row_index THEN Append(sorted, r)
    ELSE Append(InsertByIndex_Unstable(SubSeq(sorted, 1, Len(sorted) - 1), r), Last(sorted))

RECURSIVE InsertByIndex(_, _)
InsertByIndex(sorted, r) ==
    IF sorted = <<>> THEN <<r>>
    ELSE IF Last(sorted).row_index <= r.row_index THEN Append(sorted, r)
    ELSE Append(InsertByIndex(SubSeq(sorted, 1, Len(sorted) - 1), r), Last(sorted))

RECURSIVE SortByIndex(_)
SortByIndex(rows) ==
    IF rows = <<>> THEN <<>>
    ELSE InsertByIndex(SortByIndex(SubSeq(rows, 1, Len(rows) - 1)), Last(rows))

ClippedRows(rows, abrot, cells) == SortByIndex(ClipLoop(rows, abrot, cells))

(***************************************************************************)
(* Label sequencer.  Character codes: "A" = 65, "a" = 97, "0" = 48,        *)
(* "-" = 45, "/" = 47.                                                     *)
(***************************************************************************)
\* str.upper() of one character
Upper(c) == IF c \in 97..122 THEN c - 32 ELSE c

\* the decimal digits of n >= 0
RECURSIVE Digits(_)
Digits(n) == IF n < 10 THEN <<48 + n>> ELSE Digits(n \div 10) \o <<48 + (n % 10)>>

\* str(num)
Str(num) == IF num < 0 THEN <<45>> \o Digits(-num) ELSE Digits(num)

\* f"{num:02d}": zeros between the sign and the digits up to a width of 2
Format02d(num) ==
    LET sign == IF num < 0 THEN <<45>> ELSE <<>>
        digits == Digits(Abs(num))
        fill == IF Len(sign) + Len(digits) < 2 THEN 2 - Len(sign) - Len(digits) ELSE 0
    IN  sign \o [k \in 1..fill |-> 48] \o digits

\* _label_sequence without the wrap of the letter at the end of the alphabet
_label_sequence_NoWrap(letter0, num0, index, pad, keep) ==
    LET letter == IF keep THEN Upper(letter0)
                  ELSE ((Upper(letter0) - 65) + index) + 65
        num == num0 + index
        num_s == IF pad THEN Format02d(num) ELSE Str(num)
    IN  <<letter>> \o num_s

\* _label_sequence with negative numbers clamped to 0
_label_sequence_Clamped(letter0, num0, index, pad, keep) ==
    LET letter == IF keep THEN Upper(letter0)
                  ELSE (((Upper(letter0) - 65) + index) % 26) + 65
        num == IF num0 + index < 0 THEN 0 ELSE num0 + index
        num_s == IF pad THEN Format02d(num) ELSE Str(num)
    IN  <<letter>> \o num_s

_label_sequence(letter0, num0, index, pad, keep) ==
    LET letter == IF keep THEN Upper(letter0)
                  ELSE (((Upper(letter0) - 65) + index) % 26) + 65
        num == num0 + index
        num_s == IF pad THEN Format02d(num) ELSE Str(num)
    IN  <<letter>> \o num_s

\* the label of a row: the dual_zone branch of generate_rows_geojson
RowLabel(letter0, num0, row_index, pad, keep, dual) ==
    IF dual
    THEN _label_sequence(letter0, num0, row_index, pad, keep) \o <<47>>
         \o _label_sequence(letter0, num0, row_index + 1, pad, keep)
    ELSE _label_sequence(letter0, num0, row_index, pad, keep)

(***************************************************************************)
(* Orientation resolver.                                                   *)
(***************************************************************************)
\* the reversal test: ax, bx are read from ab_m, the segment from the aligned frame
NeedsReverse(ax, bx, seg_start_x, seg_end_x) ==
    \/ (bx > ax /\ seg_start_x > seg_end_x)
    \/ (bx < ax /\ seg_start_x < seg_end_x)

Oriented(seg, abm) ==
    IF NeedsReverse(First(abm)[1], Last(abm)[1], First(seg)[1], Last(seg)[1])
    THEN Reversed(seg) ELSE seg

\* squared planar distance: it orders the points as Point.distance does
Dist2(p, q) == (p[1] - q[1]) * (p[1] - q[1]) + (p[2] - q[2]) * (p[2] - q[2])

\* use_start, from the distances of the two endpoints to A
UseStart(side, dist1_to_a, dist2_to_a) ==
    IF side = "A" THEN dist1_to_a < dist2_to_a ELSE dist1_to_a > dist2_to_a

\* DestCoord read from the aligned segment instead of the transformed path
DestCoord_AlignedFrame(use_start, seg_wgs, seg_coords) ==
    IF use_start THEN First(seg_coords) ELSE Last(seg_coords)

\* dest_coord = seg_wgs_coords[0] if use_start else seg_wgs_coords[-1]
DestCoord(use_start, seg_wgs, seg_coords) ==
    IF use_start THEN First(seg_wgs) ELSE Last(seg_wgs)

(***************************************************************************)
(* One pass of the loop over clipped_rows: the two features of a row.      *)
(* The field row is the row's position in clipped_rows and index its row   *)
(* index; both only relate a feature to its row.                           *)
(***************************************************************************)
RowFeatures(k, row, abm, abrot, deg, abwgs, side, letter0, num0, pad, keep, dual) ==
    LET seg_coords == Oriented(row.seg, abm)
        label == RowLabel(letter0, num0, row.row_index, pad, keep, dual)
        rotation_origin == First(abm)
        center == Centroid2(abwgs)
        seg_unrot == _rotate(seg_coords, deg, rotation_origin)
        seg_wgs == _from_utm(seg_unrot, center[1], center[2])
        a_rot == First(abrot)
        p1_rot == First(seg_coords)
        p2_rot == Last(seg_coords)
        use_start == UseStart(side, Dist2(p1_rot, a_rot), Dist2(p2_rot, a_rot))
    IN  [path |-> [type |-> "NetworkPath", geometry |-> seg_wgs,
                   row |-> k, index |-> row.row_index, kind |-> "row"],
         dest |-> [type |-> "NetworkDestination", name |-> label,
                   geometry |-> DestCoord(use_start, seg_wgs, seg_coords),
                   row |-> k, index |-> row.row_index]]

(***************************************************************************)
(* Turn templates.  A GeoJSON value is a record with a type; a geometry    *)
(* has its coordinates as a sequence of points.  None is the empty         *)
(* sequence.                                                               *)
(***************************************************************************)
None == <<>>

NoGeoJson == [type |-> "None"]

\* the geometry that prepare_turn_template hands to shape()
TemplateGeometry(turn_geojson) ==
    CASE turn_geojson.type = "FeatureCollection" -> turn_geojson.features[1].geometry
      [] turn_geojson.type = "Feature" -> turn_geojson.geometry
      [] OTHER -> turn_geojson

\* prepare_turn_template raises: features[0] of an empty list, or shape() of
\* a missing geometry
TemplateRaises(turn_geojson) ==
    CASE turn_geojson.type = "None" -> FALSE
      [] turn_geojson.type = "FeatureCollection" ->
             \/ turn_geojson.features = <<>>
             \/ turn_geojson.features[1].geometry.type = "None"
      [] turn_geojson.type = "Feature" -> turn_geojson.geometry.type = "None"
      [] OTHER -> FALSE

\* prepare_turn_template: the template and its anchor in the planar frame;
\* the anchor of a Point or LineString is its first coordinate
prepare_turn_template(turn_geojson, lon2, lat2) ==
    IF turn_geojson.type = "None"
    THEN [template_m |-> None, anchor_m |-> None]
    ELSE LET geom == TemplateGeometry(turn_geojson)
             anchor == First(geom.coordinates)
         IN  [template_m |-> _to_utm(geom.coordinates, lon2, lat2),
              anchor_m |-> First(_to_utm(<<anchor>>, lon2, lat2))]

\* shapely.affinity.translate of one point
TranslatePoint(p, xoff, yoff) == <<p[1] + xoff, p[2] + yoff>>

\* shapely.affinity.scale of one point about the origin (0, 0)
ScalePoint(p, xfact, yfact) == <<p[1] * xfact, p[2] * yfact>>

\* _attach_custom_turn with the rotation applied before the flips
_attach_custom_turn_RotateFirst(template_geom, template_anchor, dest_point, deg, flip_horizontal, flip_vertical) ==
    [k \in 1..Len(template_geom) |->
        LET centered == TranslatePoint(template_geom[k], -template_anchor[1], -template_anchor[2])
            rotated == RotatePoint(centered, deg, <<0, 0>>)
            flipped_h == IF flip_horizontal THEN ScalePoint(rotated, -1, 1) ELSE rotated
            flipped == IF flip_vertical THEN ScalePoint(flipped_h, 1, -1) ELSE flipped_h
        IN  TranslatePoint(flipped, dest_point[1], dest_point[2])]

_attach_custom_turn(template_geom, template_anchor, dest_point, deg, flip_horizontal, flip_vertical) ==
    [k \in 1..Len(template_geom) |->
        LET centered == TranslatePoint(template_geom[k], -template_anchor[1], -template_anchor[2])
            flipped_h == IF flip_horizontal THEN ScalePoint(centered, -1, 1) ELSE centered
            flipped == IF flip_vertical THEN ScalePoint(flipped_h, 1, -1) ELSE flipped_h
            rotated == RotatePoint(flipped, deg, <<0, 0>>)
        IN  TranslatePoint(rotated, dest_point[1], dest_point[2])]

\* b_template with the fallback the wrong way round: the primary template first
EndTemplate_PrimaryFirst(end, custom, secondary) ==
    IF custom # None THEN custom ELSE secondary

\* a_template / a_anchor and b_template / b_anchor: the end's own template
\* when it is present, the other end's otherwise
EndTemplate(end, custom, secondary) ==
    IF end = "A" THEN (IF custom # None THEN custom ELSE secondary)
                 ELSE (IF secondary # None THEN secondary ELSE custom)

\* turn_a_pt_rot and turn_b_pt_rot
TurnPoint(end, p1_rot, p2_rot, a_rot) ==
    IF end = "A"
    THEN (IF Dist2(p1_rot, a_rot) < Dist2(p2_rot, a_rot) THEN p1_rot ELSE p2_rot)
    ELSE (IF Dist2(p1_rot, a_rot) > Dist2(p2_rot, a_rot) THEN p1_rot ELSE p2_rot)

\* turn_a_angle and turn_b_angle
TurnAngle(end, row_angle_deg, offset_a, offset_b) ==
    IF end = "A" THEN row_angle_deg + offset_a ELSE row_angle_deg + 180 + offset_b

\* the turn features of one row at one end: none or one
TurnFeature(end, k, row, abm, abrot, deg, abwgs, turn_side, custom, custom_anchor, secondary, secondary_anchor, offset_a, offset_b, flip_h, flip_v) ==
    LET template == EndTemplate(end, custom, secondary)
        anchor == EndTemplate(end, custom_anchor, secondary_anchor)
        seg_coords == Oriented(row.seg, abm)
        rotation_origin == First(abm)
        center == Centroid2(abwgs)
        seg_unrot == _rotate(seg_coords, deg, rotation_origin)
        seg_dx == Last(seg_unrot)[1] - First(seg_unrot)[1]
        seg_dy == Last(seg_unrot)[2] - First(seg_unrot)[2]
        row_angle_deg == Atan2Deg(seg_dy, seg_dx)
        turn_pt_rot == TurnPoint(end, First(seg_coords), Last(seg_coords), First(abrot))
        turn_unrot == RotatePoint(turn_pt_rot, deg, rotation_origin)
        attached_m == _attach_custom_turn(template, anchor, turn_unrot,
                                          TurnAngle(end, row_angle_deg, offset_a, offset_b),
                                          flip_h, flip_v)
    IN  IF turn_side = end /\ template # None /\ anchor # None
        THEN <<[type |-> "NetworkPath",
                geometry |-> _from_utm(attached_m, center[1], center[2]),
                row |-> k, index |-> row.row_index,
                kind |-> IF end = "A" THEN "turn_a" ELSE "turn_b"]>>
        ELSE <<>>

(***************************************************************************)
(* One whole pass of the loop: the Path of the row, its Destination and    *)
(* the turns attached at its ends, with the ids in the order of the        *)
(* uuid4 calls.  The n-th value drawn from the random source ent is        *)
(* <<ent, n>>; base is the number of values drawn before the pass.         *)
(***************************************************************************)
WithIds(fs, ent, base, time) ==
    [n \in 1..Len(fs) |-> fs[n] @@ [id |-> <<ent, base + n>>, createDate |-> time]]

RowPass(k, side, time, ent, base) ==
    LET f == RowFeatures(k, clipped_rows[k], ab_m, ab_rot, angle_deg, ab_feature,
                         side, start_letter, start_num, zero_pad,
                         keep_start_letter, dual_zone)
        turn_a == TurnFeature("A", k, clipped_rows[k], ab_m, ab_rot, angle_deg, ab_feature,
                              turn_side_a, custom_m_template, custom_anchor_m,
                              secondary_m_template, secondary_anchor_m,
                              rotation_offset_a, rotation_offset_b,
                              flip_start_horizontal, flip_start_vertical)
        turn_b == TurnFeature("B", k, clipped_rows[k], ab_m, ab_rot, angle_deg, ab_feature,
                              turn_side_b, custom_m_template, custom_anchor_m,
                              secondary_m_template, secondary_anchor_m,
                              rotation_offset_a, rotation_offset_b,
                              flip_end_horizontal, flip_end_vertical)
        drawn == WithIds(<<f.path, f.dest>> \o turn_a \o turn_b, ent, base, time)
    IN  [features |-> <<drawn[1]>> \o SubSeq(drawn, 3, Len(drawn)),
         dest_features |-> <<drawn[2]>>]

\* the whole loop from row k on, after the features fs and ds, and the returned
\* collection: one invocation with the clock reading time and the random
\* source ent
RECURSIVE RunLoop(_, _, _, _, _)
RunLoop(k, fs, ds, time, ent) ==
    IF k > Len(clipped_rows)
    THEN fs \o ds
    ELSE LET pass == RowPass(k, dest_side, time, ent, Len(fs) + Len(ds))
         IN  RunLoop(k + 1, fs \o pass.features, ds \o pass.dest_features, time, ent)

\* the FeatureCollection with the Destination features first
FeatureCollection_DestinationsFirst(fs, ds) == ds \o fs

\* "features": features + dest_features
FeatureCollection(fs, ds) == fs \o ds

(***************************************************************************)
(* The inputs that are checked.                                            *)
(***************************************************************************)
\* the cells i0..i1 x j0..j1 of the grid
Rect(i0, i1, j0, j1) == {<<2 * i + 1, 2 * j + 1>> : i \in i0..i1, j \in j0..j1}

Rectangles ==
    {Rect(i0, i1, j0, j1) : i0 \in 0..(GridW - 1), i1 \in 0..(GridW - 1),
                            j0 \in 0..(GridH - 1), j1 \in 0..(GridH - 1)} \ {{}}

\* a rectangle of 3 x 2 cells without the middle cell of its upper row
Notched ==
    {Rect(i0, i0 + 2, j0, j0 + 1) \ {<<2 * i0 + 3, 2 * j0 + 3>>} :
        i0 \in 0..(GridW - 3), j0 \in 0..(GridH - 2)}

Areas == Rectangles \cup Notched

Directions == {<<1, 0>>, <<-1, 0>>, <<0, 1>>, <<0, -1>>}

ABLines ==
    {<<<<x, y>>, <<x + ABLen * d[1], y + ABLen * d[2]>>>> :
        x \in 0..MaxCoord, y \in 0..MaxCoord, d \in Directions}

\* start letters "A", "Y", "Z", "f" and start numbers around the changes of width
StartLetters == {65, 89, 90, 102}

StartNums == {0, 1, 8, 98}

(***************************************************************************)
(* generate_rows_geojson as a state machine.                               *)
(***************************************************************************)
\* no turn template, both ends switched on, no offset and no flip: the defaults
TurnDefaults ==
    /\ custom_turn_geojson = NoGeoJson
    /\ secondary_turn_geojson = NoGeoJson
    /\ turn_side_a = "A"
    /\ turn_side_b = "B"
    /\ rotation_offset_a = 0
    /\ rotation_offset_b = 0
    /\ flip_start_horizontal = FALSE
    /\ flip_start_vertical = FALSE
    /\ flip_end_horizontal = FALSE
    /\ flip_end_vertical = FALSE

\* nothing prepared, stamped or attached yet
Blank ==
    /\ custom_m_template = None
    /\ custom_anchor_m = None
    /\ secondary_m_template = None
    /\ secondary_anchor_m = None
    /\ current_time = 0
    /\ attach_point = None
    /\ attached = None

Init ==
    /\ pc = "start"
    /\ area_feature \in Areas
    /\ ab_feature \in ABLines
    /\ spacing_m \in 1..MaxSpacing
    /\ dest_side \in {"A", "B"}
    /\ start_letter = 70
    /\ start_num = 1
    /\ zero_pad = TRUE
    /\ dual_zone = FALSE
    /\ keep_start_letter = TRUE
    /\ area_m = {}
    /\ ab_m = <<>>
    /\ angle_deg = 0
    /\ area_rot = {}
    /\ ab_rot = <<>>
    /\ row_lines_with_index = <<>>
    /\ clipped_rows = <<>>
    /\ features = <<>>
    /\ dest_features = <<>>
    /\ out_fc = <<>>
    /\ label_index = 0
    /\ label_names = <<>>
    /\ TurnDefaults
    /\ clock = 1
    /\ entropy = 1
    /\ Blank

\* parse, project to UTM, rotate about A so that AB is horizontal
Align ==
    /\ pc = "start"
    /\ LET center == Centroid2(ab_feature)
           abm == _to_utm(ab_feature, center[1], center[2])
           aream == _to_utm_area(area_feature, center[1], center[2])
           ax == First(abm)[1]
           ay == First(abm)[2]
           bx == Last(abm)[1]
           by == Last(abm)[2]
           deg == Atan2Deg(by - ay, bx - ax)
       IN  /\ area_m' = aream
           /\ ab_m' = abm
           /\ angle_deg' = deg
           /\ area_rot' = _rotate_area(aream, -deg, <<ax, ay>>)
           /\ ab_rot' = _rotate(abm, -deg, <<ax, ay>>)
    /\ pc' = "aligned"
    /\ UNCHANGED <<inputs, row_lines_with_index, clipped_rows, features,
                   dest_features, out_fc, label_index, label_names, turn_state, attach_state>>

\* the candidate rows at exact spacing from reference_y
GenerateRows ==
    /\ pc = "aligned"
    /\ row_lines_with_index' = RowLinesWithIndex(ab_rot, area_rot, spacing_m)
    /\ pc' = "generated"
    /\ UNCHANGED <<inputs, area_m, ab_m, angle_deg, area_rot, ab_rot, clipped_rows,
                   features, dest_features, out_fc, label_index, label_names, turn_state, attach_state>>

\* clip every candidate to the polygon, then sort by row index
ClipRows ==
    /\ pc = "generated"
    /\ clipped_rows' = ClippedRows(row_lines_with_index, ab_rot, area_rot)
    /\ pc' = "clipped"
    /\ UNCHANGED <<inputs, area_m, ab_m, angle_deg, area_rot, ab_rot,
                   row_lines_with_index, features, dest_features, out_fc,
                   label_index, label_names, turn_state, attach_state>>

\* the two calls of prepare_turn_template; an exception leaves the function
PrepareTurnTemplates ==
    /\ pc = "clipped"
    /\ LET center == Centroid2(ab_feature)
           raises == TemplateRaises(custom_turn_geojson) \/ TemplateRaises(secondary_turn_geojson)
           custom == IF raises THEN [template_m |-> None, anchor_m |-> None]
                     ELSE prepare_turn_template(custom_turn_geojson, center[1], center[2])
           secondary == IF raises THEN [template_m |-> None, anchor_m |-> None]
                        ELSE prepare_turn_template(secondary_turn_geojson, center[1], center[2])
       IN  /\ custom_m_template' = custom.template_m
           /\ custom_anchor_m' = custom.anchor_m
           /\ secondary_m_template' = secondary.template_m
           /\ secondary_anchor_m' = secondary.anchor_m
           /\ pc' = IF raises THEN "raised" ELSE "prepared"
    /\ UNCHANGED <<inputs, area_m, ab_m, angle_deg, area_rot, ab_rot,
                   row_lines_with_index, clipped_rows, features, dest_features, out_fc,
                   label_index, label_names, current_time, attach_state>>

\* current_time = datetime.datetime.now(...): one reading of the clock per run
Timestamp ==
    /\ pc = "prepared"
    /\ current_time' = clock
    /\ pc' = "rows"
    /\ UNCHANGED <<inputs, area_m, ab_m, angle_deg, area_rot, ab_rot,
                   row_lines_with_index, clipped_rows, features, dest_features, out_fc,
                   label_index, label_names, custom_m_template, custom_anchor_m,
                   secondary_m_template, secondary_anchor_m, attach_state>>

\* one pass of the loop over clipped_rows
ProcessRow ==
    /\ pc = "rows"
    /\ Len(dest_features) < Len(clipped_rows)
    /\ LET k == Len(dest_features) + 1
           pass == RowPass(k, dest_side, current_time, entropy,
                           Len(features) + Len(dest_features))
       IN  /\ features' = features \o pass.features
           /\ dest_features' = dest_features \o pass.dest_features
    /\ UNCHANGED <<pc, inputs, area_m, ab_m, angle_deg, area_rot, ab_rot,
                   row_lines_with_index, clipped_rows, out_fc,
                   label_index, label_names, turn_state, attach_state>>

\* out_fc = features + dest_features
Return ==
    /\ pc = "rows"
    /\ Len(dest_features) = Len(clipped_rows)
    /\ out_fc' = FeatureCollection(features, dest_features)
    /\ pc' = "done"
    /\ UNCHANGED <<inputs, area_m, ab_m, angle_deg, area_rot, ab_rot,
                   row_lines_with_index, clipped_rows, features, dest_features,
                   label_index, label_names, turn_state, attach_state>>

Next == Align \/ GenerateRows \/ ClipRows \/ PrepareTurnTemplates \/ Timestamp
            \/ ProcessRow \/ Return

Spec == Init /\ [][Next]_vars

(***************************************************************************)
(* The same run on a degenerate AB line: A and B are the same point.       *)
(***************************************************************************)
DegenerateLines == {<<<<x, y>>, <<x, y>>>> : x \in 0..MaxCoord, y \in 0..MaxCoord}

InitDegenerate ==
    /\ pc = "start"
    /\ area_feature \in Areas
    /\ ab_feature \in DegenerateLines
    /\ spacing_m \in 1..MaxSpacing
    /\ dest_side \in {"A", "B"}
    /\ start_letter = 70
    /\ start_num = 1
    /\ zero_pad = TRUE
    /\ dual_zone = FALSE
    /\ keep_start_letter = TRUE
    /\ area_m = {}
    /\ ab_m = <<>>
    /\ angle_deg = 0
    /\ area_rot = {}
    /\ ab_rot = <<>>
    /\ row_lines_with_index = <<>>
    /\ clipped_rows = <<>>
    /\ features = <<>>
    /\ dest_features = <<>>
    /\ out_fc = <<>>
    /\ label_index = 0
    /\ label_names = <<>>
    /\ TurnDefaults
    /\ clock = 1
    /\ entropy = 1
    /\ Blank

SpecDegenerate == InitDegenerate /\ [][Next]_vars

(***************************************************************************)
(* The run with turn templates, on a few boundaries and AB lines: every    *)
(* combination of an absent, a usable and an unusable template at the two  *)
(* ends, of the attach flags, and two readings of the clock and of the     *)
(* random source.                                                          *)
(***************************************************************************)
LineTemplate ==
    [type |-> "LineString", coordinates |-> <<<<10, 10>>, <<12, 10>>>>]

HookTemplate ==
    [type |-> "LineString", coordinates |-> <<<<20, 5>>, <<20, 6>>, <<23, 6>>>>]

\* primary templates: none, a FeatureCollection of one line, one without features
CustomTurns ==
    {NoGeoJson,
     [type |-> "FeatureCollection",
      features |-> <<[type |-> "Feature", geometry |-> LineTemplate]>>],
     [type |-> "FeatureCollection", features |-> <<>>]}

\* secondary templates: none, a bare geometry, a Feature without geometry
SecondaryTurns ==
    {NoGeoJson, HookTemplate, [type |-> "Feature", geometry |-> NoGeoJson]}

TurnAreas == {Rect(0, 1, 0, 1), Rect(0, 1, 0, 0)}

TurnABLines ==
    {<<a, <<a[1] + ABLen * d[1], a[2] + ABLen * d[2]>>>> :
        a \in {<<2, 2>>, <<1, 1>>, <<0, 3>>}, d \in Directions}

\* rotation offsets of the two ends, and the four flip flags
TurnOffsets == {<<0, 0>>, <<90, 270>>}

TurnFlips == {<<FALSE, FALSE, FALSE, FALSE>>, <<TRUE, FALSE, FALSE, TRUE>>}

ClockReadings == {1, 2}

RandomSources == {1, 2}

InitTurn ==
    /\ pc = "start"
    /\ area_feature \in TurnAreas
    /\ ab_feature \in TurnABLines
    /\ spacing_m = 2
    /\ dest_side = "A"
    /\ start_letter = 70
    /\ start_num = 1
    /\ zero_pad = TRUE
    /\ dual_zone = FALSE
    /\ keep_start_letter = TRUE
    /\ area_m = {}
    /\ ab_m = <<>>
    /\ angle_deg = 0
    /\ area_rot = {}
    /\ ab_rot = <<>>
    /\ row_lines_with_index = <<>>
    /\ clipped_rows = <<>>
    /\ features = <<>>
    /\ dest_features = <<>>
    /\ out_fc = <<>>
    /\ label_index = 0
    /\ label_names = <<>>
    /\ custom_turn_geojson \in CustomTurns
    /\ secondary_turn_geojson \in SecondaryTurns
    /\ turn_side_a \in {"A", "NONE"}
    /\ turn_side_b \in {"B", "NONE"}
    /\ \E o \in TurnOffsets : rotation_offset_a = o[1] /\ rotation_offset_b = o[2]
    /\ \E f \in TurnFlips :
           /\ flip_start_horizontal = f[1]
           /\ flip_start_vertical = f[2]
           /\ flip_end_horizontal = f[3]
           /\ flip_end_vertical = f[4]
    /\ clock \in ClockReadings
    /\ entropy \in RandomSources
    /\ Blank

SpecTurn == InitTurn /\ [][Next]_vars

(***************************************************************************)
(* _attach_custom_turn on its own, for every flag and a set of angles.     *)
(***************************************************************************)
AttachTemplates ==
    {<<<<0, 0>>, <<2, 0>>>>, <<<<1, 1>>, <<1, 3>>, <<4, 3>>>>, <<<<-2, 5>>>>}

AttachAngles == {-90, 0, 90, 180, 270, 450}

InitAttach ==
    /\ pc = "attach"
    /\ area_feature = {}
    /\ ab_feature = <<>>
    /\ spacing_m = 1
    /\ dest_side = "A"
    /\ start_letter = 70
    /\ start_num = 1
    /\ zero_pad = TRUE
    /\ dual_zone = FALSE
    /\ keep_start_letter = TRUE
    /\ area_m = {}
    /\ ab_m = <<>>
    /\ angle_deg = 0
    /\ area_rot = {}
    /\ ab_rot = <<>>
    /\ row_lines_with_index = <<>>
    /\ clipped_rows = <<>>
    /\ features = <<>>
    /\ dest_features = <<>>
    /\ out_fc = <<>>
    /\ label_index = 0
    /\ label_names = <<>>
    /\ custom_turn_geojson = NoGeoJson
    /\ secondary_turn_geojson = NoGeoJson
    /\ turn_side_a = "A"
    /\ turn_side_b = "B"
    /\ rotation_offset_a \in AttachAngles
    /\ rotation_offset_b = 0
    /\ flip_start_horizontal \in BOOLEAN
    /\ flip_start_vertical \in BOOLEAN
    /\ flip_end_horizontal = FALSE
    /\ flip_end_vertical = FALSE
    /\ clock = 1
    /\ entropy = 1
    /\ custom_m_template \in AttachTemplates
    /\ custom_anchor_m \in {First(custom_m_template), <<1, -1>>}
    /\ secondary_m_template = None
    /\ secondary_anchor_m = None
    /\ current_time = 0
    /\ attach_point \in {<<0, 0>>, <<3, -2>>}
    /\ attached = None

\* attached = _attach_custom_turn(template, anchor, dest_point, angle, flips)
Attach ==
    /\ pc = "attach"
    /\ attached' = _attach_custom_turn(custom_m_template, custom_anchor_m, attach_point,
                                       rotation_offset_a, flip_start_horizontal,
                                       flip_start_vertical)
    /\ pc' = "attached"
    /\ UNCHANGED <<inputs, area_m, ab_m, angle_deg, area_rot, ab_rot,
                   row_lines_with_index, clipped_rows, features, dest_features, out_fc,
                   label_index, label_names, turn_state, attach_point>>

NextAttach == Attach

SpecAttach == InitAttach /\ [][NextAttach]_vars

(***************************************************************************)
(* The label sequencer on its own: the labels of the row indices           *)
(* -MaxIndex..MaxIndex in ascending order, for every configuration.        *)
(***************************************************************************)
InitLabel ==
    /\ pc = "label"
    /\ area_feature = {}
    /\ ab_feature = <<>>
    /\ spacing_m = 1
    /\ dest_side = "A"
    /\ start_letter \in StartLetters
    /\ start_num \in StartNums
    /\ zero_pad \in BOOLEAN
    /\ dual_zone \in BOOLEAN
    /\ keep_start_letter \in BOOLEAN
    /\ area_m = {}
    /\ ab_m = <<>>
    /\ angle_deg = 0
    /\ area_rot = {}
    /\ ab_rot = <<>>
    /\ row_lines_with_index = <<>>
    /\ clipped_rows = <<>>
    /\ features = <<>>
    /\ dest_features = <<>>
    /\ out_fc = <<>>
    /\ label_index = -MaxIndex
    /\ label_names = <<>>
    /\ TurnDefaults
    /\ clock = 1
    /\ entropy = 1
    /\ Blank

LabelRow ==
    /\ pc = "label"
    /\ label_index <= MaxIndex
    /\ label_names' = Append(label_names,
                             RowLabel(start_letter, start_num, label_index, zero_pad,
                                      keep_start_letter, dual_zone))
    /\ label_index' = label_index + 1
    /\ UNCHANGED <<pc, inputs, area_m, ab_m, angle_deg, area_rot, ab_rot,
                   row_lines_with_index, clipped_rows, features, dest_features, out_fc,
                   turn_state, attach_state>>

NextLabel == LabelRow

SpecLabel == InitLabel /\ [][NextLabel]_vars

(***************************************************************************)
(* Properties.                                                             *)
(***************************************************************************)
Clipped == pc \in {"clipped", "prepared", "raised", "rows", "done"}

ZeroRows == {k \in DOMAIN clipped_rows : clipped_rows[k].row_index = 0}

\* C1: whatever the position of the AB line, the clipped row list holds exactly
\* one segment of index 0, and that segment is the aligned AB line, unclipped.
C1_ExactlyOneRowZero ==
    Clipped => /\ Cardinality(ZeroRows) = 1
               /\ \A k \in ZeroRows : clipped_rows[k].seg = ab_rot

\* C2: the Path feature of row index 0 has the coordinates of the original AB
\* line in the order A, B, for every direction of AB.
C2_RowZeroPathIsAB ==
    \A f \in DOMAIN features :
        (features[f].kind = "row" /\ features[f].index = 0)
            => features[f].geometry = ab_feature

\* the Path feature of the row of a Destination feature
PathOf(d) ==
    features[CHOOSE f \in DOMAIN features :
                 features[f].kind = "row" /\ features[f].row = dest_features[d].row]

\* C3: the coordinate of every Destination feature is the first or the last
\* coordinate of the emitted Path geometry of the same row.
C3_DestOnPathEndpoint ==
    \A d \in DOMAIN dest_features :
        /\ \E f \in DOMAIN features :
               features[f].kind = "row" /\ features[f].row = dest_features[d].row
        /\ dest_features[d].geometry \in
               {First(PathOf(d).geometry), Last(PathOf(d).geometry)}

C3_Witness ==
    /\ pc = "done"
    /\ dest_side = "B"
    /\ \E d \in DOMAIN dest_features :
           dest_features[d].geometry = First(PathOf(d).geometry)
    /\ \E d \in DOMAIN dest_features :
           dest_features[d].geometry = Last(PathOf(d).geometry)

OtherSide(side) == IF side = "A" THEN "B" ELSE "A"

\* the features of row k in the run that differs only in dest_side
ToggledRun(k) ==
    RowFeatures(k, clipped_rows[k], ab_m, ab_rot, angle_deg, ab_feature,
                OtherSide(dest_side), start_letter, start_num, zero_pad,
                keep_start_letter, dual_zone)

\* C4: toggling dest_side leaves the Path geometry of every row unchanged and
\* moves the destination of every row to the opposite endpoint of the row,
\* also for rows whose endpoints are equidistant from A.
C4_ToggleFlipsEveryDestination ==
    \A d \in DOMAIN dest_features :
        LET g == PathOf(d).geometry
            t == ToggledRun(dest_features[d].row)
        IN  /\ t.path.geometry = g
            /\ t.dest.geometry \in {First(g), Last(g)}
            /\ t.dest.geometry # dest_features[d].geometry

\* C5: with dest_side A the destination is the endpoint strictly closer to A,
\* the first endpoint when both are equidistant; with dest_side B it is the
\* endpoint strictly farther from A.  (The transforms back are rigid, so the
\* distances are those of the aligned frame.)
C5_DestinationSelection ==
    \A d \in DOMAIN dest_features :
        LET g == PathOf(d).geometry
            d1 == Dist2(First(g), First(ab_feature))
            d2 == Dist2(Last(g), First(ab_feature))
            dest == dest_features[d].geometry
        IN  IF dest_side = "A"
            THEN /\ d1 <= d2 => dest = First(g)
                 /\ d2 < d1 => dest = Last(g)
            ELSE /\ d1 > d2 => dest = First(g)
                 /\ d2 > d1 => dest = Last(g)

\* C6: every emitted row runs in the direction of AB, for every direction of AB.
C6_RowsRunAlongAB ==
    \A f \in {r \in DOMAIN features : features[r].kind = "row"} :
        LET g == features[f].geometry
        IN  (Last(g)[1] - First(g)[1]) * (Last(ab_feature)[1] - First(ab_feature)[1])
            + (Last(g)[2] - First(g)[2]) * (Last(ab_feature)[2] - First(ab_feature)[2]) > 0

\* the polygon is a rectangle with sides parallel to the axes
IsRectangle(cells) ==
    Cardinality(cells) * 4
        = (Bounds(cells)[3] - Bounds(cells)[1]) * (Bounds(cells)[4] - Bounds(cells)[2])

\* the extent of the aligned polygon perpendicular to AB
Extent == Bounds(area_rot)[4] - Bounds(area_rot)[2]

\* a rectangle of height 2*k*spacing_m with AB through its centre
C7_Case ==
    /\ Clipped
    /\ IsRectangle(area_rot)
    /\ Extent % (2 * spacing_m) = 0
    /\ 2 * ReferenceY(ab_rot) = Bounds(area_rot)[2] + Bounds(area_rot)[4]

C7_K == Extent \div (2 * spacing_m)

\* C7: for a rectangle parallel to AB of height 2*k*spacing_m with AB through
\* its centre, the surviving rows are one per index in -k..k, every non-zero
\* row spans the width of the rectangle, row 0 is the AB line, and the
\* candidates of index beyond k and -k are discarded.
C7_CentredRectangleRows ==
    C7_Case =>
        /\ Len(clipped_rows) = 2 * C7_K + 1
        /\ \A n \in DOMAIN clipped_rows :
               LET i == n - C7_K - 1
                   y == ReferenceY(ab_rot) + i * spacing_m
               IN  /\ clipped_rows[n].row_index = i
                   /\ i = 0 => clipped_rows[n].seg = ab_rot
                   /\ i # 0 => clipped_rows[n].seg =
                                   <<<<Bounds(area_rot)[1], y>>, <<Bounds(area_rot)[3], y>>>>
        /\ \E c \in DOMAIN row_lines_with_index :
               row_lines_with_index[c].row_index = C7_K + 1
        /\ \E c \in DOMAIN row_lines_with_index :
               row_lines_with_index[c].row_index = -(C7_K + 1)

C7_Witness ==
    /\ C7_Case
    /\ pc = "done"
    /\ C7_K = 2
    /\ Len(clipped_rows) = 5
    /\ clipped_rows[3].seg # <<<<Bounds(area_rot)[1], ReferenceY(ab_rot)>>,
                               <<Bounds(area_rot)[3], ReferenceY(ab_rot)>>>>

PathCount == Cardinality({f \in DOMAIN out_fc : out_fc[f].type = "NetworkPath"})

DestinationCount == Cardinality({f \in DOMAIN out_fc : out_fc[f].type = "NetworkDestination"})

OneRowResult ==
    /\ PathCount = 1
    /\ DestinationCount = 1
    /\ \A f \in DOMAIN out_fc : out_fc[f].index = 0

\* C8 as stated: whenever spacing_m exceeds the extent of the polygon
\* perpendicular to AB, for every position of the AB line, the result holds
\* exactly one Path feature (row 0) and one Destination feature.
C8_OneRowForEveryPosition ==
    (pc = "done" /\ spacing_m > Extent) => OneRowResult

ReferenceWithinExtent ==
    /\ Bounds(area_rot)[2] <= ReferenceY(ab_rot)
    /\ ReferenceY(ab_rot) <= Bounds(area_rot)[4]

\* C8 as amended: whenever spacing_m exceeds the extent of the polygon
\* perpendicular to AB and the AB line lies within that extent, the result
\* holds exactly one Path feature (row 0) and one Destination feature.
C8_OneRowWhenABWithinExtent ==
    (pc = "done" /\ spacing_m > Extent /\ ReferenceWithinExtent) => OneRowResult

C8_Witness ==
    /\ pc = "done"
    /\ spacing_m > Extent
    /\ ReferenceWithinExtent
    /\ Len(out_fc) = 2
    /\ out_fc[1].geometry = ab_feature

(***************************************************************************)
(* Properties of the label sequencer, stated by reading the label back.    *)
(***************************************************************************)
RECURSIVE DecimalValue(_)
DecimalValue(ds) ==
    IF ds = <<>> THEN 0
    ELSE 10 * DecimalValue(SubSeq(ds, 1, Len(ds) - 1)) + (Last(ds) - 48)

\* t is the plain decimal numeral of n
IsPlain(t, n) ==
    LET ds == IF n < 0 THEN Tail(t) ELSE t
    IN  /\ t # <<>>
        /\ (n < 0) = (First(t) = 45)
        /\ ds # <<>>
        /\ \A k \in DOMAIN ds : ds[k] \in 48..57
        /\ (First(ds) = 48) => Len(ds) = 1
        /\ DecimalValue(ds) = Abs(n)

\* t is n with a leading zero up to two digits, negative values kept as they are
IsPadded(t, n) == IF n \in 0..9 THEN t = <<48, 48 + n>> ELSE IsPlain(t, n)

LetterPart(i) ==
    IF keep_start_letter
    THEN (IF start_letter >= 97 THEN start_letter - 32 ELSE start_letter)
    ELSE CHOOSE c \in 65..90 :
             \E q \in -MaxIndex..MaxIndex :
                 (IF start_letter >= 97 THEN start_letter - 97 ELSE start_letter - 65) + i
                     = (c - 65) + 26 * q

IsLabel(t, i) ==
    /\ Len(t) >= 2
    /\ First(t) = LetterPart(i)
    /\ IF zero_pad THEN IsPadded(Tail(t), start_num + i) ELSE IsPlain(Tail(t), start_num + i)

\* the row index of the n-th label
IndexOf(n) == n - 1 - MaxIndex

\* C9: the name of row i is letterPart(i) followed by numberPart(i), and with
\* dual_zone it is label(i), "/", label(i+1).
C9_LabelFormat ==
    \A n \in DOMAIN label_names :
        LET t == label_names[n]
        IN  IF dual_zone
            THEN \E p \in DOMAIN t :
                     /\ t[p] = 47
                     /\ IsLabel(SubSeq(t, 1, p - 1), IndexOf(n))
                     /\ IsLabel(SubSeq(t, p + 1, Len(t)), IndexOf(n) + 1)
            ELSE IsLabel(t, IndexOf(n))

C9_Witness ==
    /\ Len(label_names) = 2 * MaxIndex + 1
    /\ dual_zone
    /\ zero_pad
    /\ ~keep_start_letter
    /\ start_letter = 90
    /\ start_num = 1
    /\ label_names[1] = <<87, 45, 50, 47, 88, 45, 49>>

\* lexicographic order of texts
RECURSIVE TextLess(_, _)
TextLess(a, b) ==
    IF a = <<>> THEN b # <<>>
    ELSE IF b = <<>> THEN FALSE
    ELSE IF First(a) # First(b) THEN First(a) < First(b)
    ELSE TextLess(Tail(a), Tail(b))

\* C10 as stated: without dual_zone, for all row indices i < j the labels
\* differ and label(i) orders before label(j).
C10_InjectiveAndIncreasing ==
    ~dual_zone =>
        \A m, n \in DOMAIN label_names :
            m < n => /\ label_names[m] # label_names[n]
                     /\ TextLess(label_names[m], label_names[n])

\* both numbers are rendered without sign in the same width and the letter
\* does not wrap from Z to A between the two indices
SameShape(m, n) ==
    /\ start_num + IndexOf(m) >= 0
    /\ Len(label_names[m]) = Len(label_names[n])
    /\ \/ keep_start_letter
       \/ (Upper(start_letter) - 65 + IndexOf(m)) \div 26
              = (Upper(start_letter) - 65 + IndexOf(n)) \div 26

\* C10 as amended: without dual_zone the labels of any two row indices i < j
\* differ, and label(i) orders before label(j) when both numbers are
\* non-negative and rendered in the same width and the letter does not wrap.
C10_InjectiveAndIncreasingSameShape ==
    ~dual_zone =>
        \A m, n \in DOMAIN label_names :
            m < n => /\ label_names[m] # label_names[n]
                     /\ SameShape(m, n) => TextLess(label_names[m], label_names[n])

C10_Witness ==
    /\ ~dual_zone
    /\ Len(label_names) = 2 * MaxIndex + 1
    /\ start_num - MaxIndex < 0
    /\ \E m, n \in DOMAIN label_names : m < n /\ SameShape(m, n)
    /\ \E m, n \in DOMAIN label_names : m < n /\ ~SameShape(m, n)

(***************************************************************************)
(* Properties of the clipped row list and of the candidate family.         *)
(***************************************************************************)
\* the rows in the order in which the clipping loop appended them
Discovered == ClipLoop(row_lines_with_index, ab_rot, area_rot)

\* the positions in a row list of the rows of index i
PositionsOf(rows, i) == {k \in DOMAIN rows : rows[k].row_index = i}

\* the rows of index i, in the order of the list
RECURSIVE PiecesOf(_, _)
PiecesOf(rows, i) ==
    IF rows = <<>> THEN <<>>
    ELSE (IF Head(rows).row_index = i THEN <<Head(rows).seg>> ELSE <<>>)
         \o PiecesOf(Tail(rows), i)

\* C18: the clipped row list is sorted by ascending row index, segments that
\* share an index stay in the order in which the clipper discovered them, and
\* every segment of non-zero index is longer than the tolerance.
C18_SortedStableAndLong ==
    Clipped =>
        /\ \A m, n \in DOMAIN clipped_rows :
               m < n => clipped_rows[m].row_index <= clipped_rows[n].row_index
        /\ LET discovered == Discovered
           IN  \A i \in {clipped_rows[k].row_index : k \in DOMAIN clipped_rows} :
                   PiecesOf(clipped_rows, i) = PiecesOf(discovered, i)
        /\ \A k \in DOMAIN clipped_rows :
               clipped_rows[k].row_index # 0 => Length(clipped_rows[k].seg) > SNAP_TOLERANCE

C18_Witness ==
    /\ pc = "done"
    /\ \E m, n \in DOMAIN clipped_rows :
           /\ m < n
           /\ clipped_rows[m].row_index = clipped_rows[n].row_index
           /\ clipped_rows[m].seg # clipped_rows[n].seg
    /\ \E k \in DOMAIN clipped_rows : clipped_rows[k].row_index < 0
    /\ \E k \in DOMAIN clipped_rows : clipped_rows[k].row_index > 0

Generated == pc = "generated" \/ Clipped

\* the indices that are looked at around the reference line
IndexSpan == 2 * (MaxCoord + ABLen + 2 * GridW + 2 * GridH)

CandidateIndices == {row_lines_with_index[c].row_index : c \in DOMAIN row_lines_with_index}

\* the line of index i lies within the aligned bounding box
WithinBox(i) ==
    /\ Bounds(area_rot)[2] <= ReferenceY(ab_rot) + i * spacing_m
    /\ ReferenceY(ab_rot) + i * spacing_m <= Bounds(area_rot)[4]

\* C19: every integer i whose line y = refY + i*s lies within the aligned
\* bounding box is a generated candidate, -rowsBelow <= i <= rowsAbove, for
\* every spacing and every refY, also refY outside the box.
C19_CandidatesCoverBox ==
    Generated =>
        LET refY == ReferenceY(ab_rot)
            miny == Bounds(area_rot)[2]
            maxy == Bounds(area_rot)[4]
            candidates == CandidateIndices
        IN  \A i \in -IndexSpan..IndexSpan :
                (miny <= refY + i * spacing_m /\ refY + i * spacing_m <= maxy) =>
                    /\ i \in candidates
                    /\ -(Ceil(refY - miny, spacing_m) + 2) <= i
                    /\ i <= Ceil(maxy - refY, spacing_m) + 2

C19_Witness ==
    /\ pc = "generated"
    /\ ReferenceY(ab_rot) < Bounds(area_rot)[2]
    /\ 0 \notin CandidateIndices
    /\ \E i \in -IndexSpan..IndexSpan : WithinBox(i)

(***************************************************************************)
(* Properties of the error handling.                                       *)
(***************************************************************************)
\* C12: when A equals B the run aborts with DegenerateReferenceLine and
\* produces no features at all.
C12_DegenerateLineAborts ==
    (First(ab_feature) = Last(ab_feature)) =>
        /\ pc # "done"
        /\ features = <<>>
        /\ dest_features = <<>>
        /\ out_fc = <<>>

(***************************************************************************)
(* C13: a turn template that is supplied but unusable (no features, no     *)
(* geometry) only leaves out the affected turn path; row paths and         *)
(* destinations are still produced, so the run never stops at the          *)
(* preparation of the templates.                                           *)
(***************************************************************************)
Malformed(turn_geojson) == turn_geojson # NoGeoJson /\ TemplateRaises(turn_geojson)

C13_MalformedTemplateSkipsOnlyTurn ==
    (Malformed(custom_turn_geojson) \/ Malformed(secondary_turn_geojson)) =>
        pc # "raised"

(***************************************************************************)
(* C14: the fallback between the two turn templates.  The two templates    *)
(* of the checked runs differ in their number of points, so the template   *)
(* a turn feature was made from can be read off its geometry.              *)
(***************************************************************************)
Present(turn_geojson) == turn_geojson # NoGeoJson

\* the rows the loop has processed so far
Processed == DOMAIN dest_features

TurnsOf(k, kind) == {f \in DOMAIN features : features[f].row = k /\ features[f].kind = kind}

\* the template an end has to use: its own, else the other end's, else none
ExpectedSource(own, other) ==
    IF Present(own) THEN own ELSE IF Present(other) THEN other ELSE NoGeoJson

FallbackAt(k, kind, flag_on, own, other) ==
    LET source == ExpectedSource(own, other)
        turns == TurnsOf(k, kind)
        path == PathOf(k).geometry
    IN  IF flag_on /\ Present(source)
        THEN /\ Cardinality(turns) = 1
             /\ \A t \in turns :
                    /\ Len(features[t].geometry) = Len(TemplateGeometry(source).coordinates)
                    /\ features[t].geometry[1] \in {First(path), Last(path)}
        ELSE turns = {}

\* C14: at an end whose flag is on, the turn is made from the end's own
\* template when present, else from the other end's template when that one is
\* present, and is missing when neither is; at an end whose flag is off there
\* is no turn feature.
C14_TemplateFallback ==
    \A k \in Processed :
        /\ FallbackAt(k, "turn_a", turn_side_a = "A",
                      custom_turn_geojson, secondary_turn_geojson)
        /\ FallbackAt(k, "turn_b", turn_side_b = "B",
                      secondary_turn_geojson, custom_turn_geojson)

\* both fallbacks have happened, and both ends had their own template in another run
C14_Witness ==
    /\ pc = "done"
    /\ ~Present(custom_turn_geojson)
    /\ Present(secondary_turn_geojson)
    /\ turn_side_a = "A"
    /\ turn_side_b = "B"
    /\ Cardinality(Processed) >= 2
    /\ \A k \in Processed : TurnsOf(k, "turn_a") # {} /\ TurnsOf(k, "turn_b") # {}

(***************************************************************************)
(* C15: where the turns of a row are placed and how they are rotated.      *)
(***************************************************************************)
\* the vector v turned counter-clockwise by deg degrees, deg a multiple of 90
Turned(v, deg) ==
    CASE deg % 360 = 0   -> v
      [] deg % 360 = 90  -> <<-v[2], v[1]>>
      [] deg % 360 = 180 -> <<-v[1], -v[2]>>
      [] deg % 360 = 270 -> <<v[2], -v[1]>>

\* the vector v mirrored about the Y axis (horizontal) and about the X axis (vertical)
Mirrored(v, horizontal, vertical) ==
    <<IF horizontal THEN -v[1] ELSE v[1], IF vertical THEN -v[2] ELSE v[2]>>

\* direction angle of an emitted path; the planar frame is a translation of
\* the geographic one
RowAngle(path) == Atan2Deg(Last(path)[2] - First(path)[2], Last(path)[1] - First(path)[1])

\* the template geometry an emitted turn was made from
SourceCoords(own, other) == TemplateGeometry(ExpectedSource(own, other)).coordinates

\* the turn geometry is the template about its anchor, mirrored, turned by deg
ShapeTurnedBy(geometry, source, deg, horizontal, vertical) ==
    /\ Len(geometry) = Len(source)
    /\ \A n \in DOMAIN source :
           <<geometry[n][1] - geometry[1][1], geometry[n][2] - geometry[1][2]>> =
               Turned(Mirrored(<<source[n][1] - source[1][1], source[n][2] - source[1][2]>>,
                               horizontal, vertical), deg)

\* C15: the A-end turn of a row is turned by the row angle plus
\* rotation_offset_a and sits on the endpoint nearer to A; the B-end turn is
\* turned by the row angle plus 180 plus rotation_offset_b and sits on the
\* endpoint farther from A; the two turns of a row sit on different endpoints.
C15_TurnPlacement ==
    \A k \in Processed :
        LET path == PathOf(k).geometry
            a == First(ab_feature)
            near == SetMin({Dist2(First(path), a), Dist2(Last(path), a)})
            far == SetMax({Dist2(First(path), a), Dist2(Last(path), a)})
        IN  /\ \A t \in TurnsOf(k, "turn_a") :
                   /\ features[t].geometry[1] \in {First(path), Last(path)}
                   /\ Dist2(features[t].geometry[1], a) = near
                   /\ ShapeTurnedBy(features[t].geometry,
                                    SourceCoords(custom_turn_geojson, secondary_turn_geojson),
                                    RowAngle(path) + rotation_offset_a,
                                    flip_start_horizontal, flip_start_vertical)
            /\ \A t \in TurnsOf(k, "turn_b") :
                   /\ features[t].geometry[1] \in {First(path), Last(path)}
                   /\ Dist2(features[t].geometry[1], a) = far
                   /\ ShapeTurnedBy(features[t].geometry,
                                    SourceCoords(secondary_turn_geojson, custom_turn_geojson),
                                    RowAngle(path) + 180 + rotation_offset_b,
                                    flip_end_horizontal, flip_end_vertical)
            /\ \A ta \in TurnsOf(k, "turn_a"), tb \in TurnsOf(k, "turn_b") :
                   features[ta].geometry[1] # features[tb].geometry[1]

(***************************************************************************)
(* C11: the order of the returned features.                                *)
(***************************************************************************)
Paths == {f \in DOMAIN out_fc : out_fc[f].type = "NetworkPath"}

Destinations == {f \in DOMAIN out_fc : out_fc[f].type = "NetworkDestination"}

RowPaths == {f \in Paths : out_fc[f].kind = "row"}

TurnPaths == Paths \ RowPaths

PathsBeforeDestinations == \A p \in Paths, d \in Destinations : p < d

\* in row-index order, one per row segment
DestinationsInRowOrder ==
    /\ Cardinality(Destinations) = Len(clipped_rows)
    /\ \A m \in Destinations, n \in Destinations :
           m < n => /\ out_fc[m].row < out_fc[n].row
                    /\ out_fc[m].index <= out_fc[n].index

\* C11 as stated: the Paths precede the Destinations; all row paths come
\* first, in ascending row-index order, and the turn paths follow them in
\* row-index order; the Destinations are in row-index order, one per segment.
C11_RowsThenTurns ==
    pc = "done" =>
        /\ PathsBeforeDestinations
        /\ \A r \in RowPaths, t \in TurnPaths : r < t
        /\ \A m \in RowPaths, n \in RowPaths : m < n => out_fc[m].index <= out_fc[n].index
        /\ \A m \in TurnPaths, n \in TurnPaths : m < n => out_fc[m].index <= out_fc[n].index
        /\ DestinationsInRowOrder

KindRank(kind) == CASE kind = "row" -> 0 [] kind = "turn_a" -> 1 [] kind = "turn_b" -> 2

\* C11 amended: the Paths precede the Destinations; the Paths are grouped by
\* row segment in ascending row-index order, each row path being followed at
\* once by the turn paths of that row, A end before B end; the Destinations
\* are in row-index order, one per row segment.
C11_RowsWithTheirTurns ==
    pc = "done" =>
        /\ PathsBeforeDestinations
        /\ Cardinality(RowPaths) = Len(clipped_rows)
        /\ \A m \in Paths, n \in Paths :
               m < n => /\ out_fc[m].index <= out_fc[n].index
                        /\ \/ out_fc[m].row < out_fc[n].row
                           \/ /\ out_fc[m].row = out_fc[n].row
                              /\ KindRank(out_fc[m].kind) < KindRank(out_fc[n].kind)
        /\ DestinationsInRowOrder

\* a result of two rows or more with a turn at both ends of every row
C11_Witness ==
    /\ pc = "done"
    /\ Cardinality(RowPaths) >= 2
    /\ \A r \in RowPaths :
           \E ta \in TurnPaths, tb \in TurnPaths :
               /\ out_fc[ta].kind = "turn_a" /\ out_fc[ta].row = out_fc[r].row
               /\ out_fc[tb].kind = "turn_b" /\ out_fc[tb].row = out_fc[r].row

(***************************************************************************)
(* C16: reproducibility.  A second invocation with the same inputs and the *)
(* same timestamp is the loop run again on the same clipped rows with the  *)
(* same clock reading; what it draws from the random source is its own.    *)
(***************************************************************************)
\* C16: two invocations with identical inputs and the same timestamp return
\* identical FeatureCollections.
C16_SameInputsSameOutput ==
    pc = "done" => \A e \in RandomSources : RunLoop(1, <<>>, <<>>, current_time, e) = out_fc

(***************************************************************************)
(* C17: _attach_custom_turn as a closed formula.                           *)
(***************************************************************************)
\* C17: every template point p is mapped to target + R(angle) F(p - anchor),
\* F the mirror about the Y axis (flip_horizontal) and then about the X axis
\* (flip_vertical), R the counter-clockwise rotation about the origin; the
\* template's anchor lands on the target point.
C17_AttachFormula ==
    pc = "attached" =>
        /\ Len(attached) = Len(custom_m_template)
        /\ \A n \in DOMAIN custom_m_template :
               LET p == custom_m_template[n]
                   v == Turned(Mirrored(<<p[1] - custom_anchor_m[1], p[2] - custom_anchor_m[2]>>,
                                        flip_start_horizontal, flip_start_vertical),
                               rotation_offset_a)
               IN  /\ attached[n] = <<attach_point[1] + v[1], attach_point[2] + v[2]>>
                   /\ (p = custom_anchor_m) => (attached[n] = attach_point)

\* a flipped and turned template whose anchor is one of its points
C17_Witness ==
    /\ pc = "attached"
    /\ flip_start_horizontal
    /\ ~flip_start_vertical
    /\ rotation_offset_a = 90
    /\ Len(custom_m_template) = 3
    /\ custom_anchor_m = custom_m_template[1]
    /\ attach_point = <<3, -2>>
    /\ attached[1] = attach_point
    /\ attached # custom_m_template

====
